---- MODULE Spec2Model ----
(***************************************************************************)
(* Model of splash_screen.py: the emergency contact dialog                 *)
(* (show_emergency_contact_dialog and its handlers) and the SplashScreen   *)
(* controller (create_splash, update_progress, show_splash, close_splash). *)
(*                                                                         *)
(* Text is a sequence of one-character strings.  An attribute that holds   *)
(* None or an object is a sequence of length 0 (None) or 1 (the object).   *)
(* Toolkit calls made outside a try block are taken to succeed; the calls  *)
(* inside update_progress's try block may raise, which the code catches.   *)
(* Durations are lengths of time, hence non-negative.                      *)
(***************************************************************************)
EXTENDS Integers, Sequences, FiniteSets

VARIABLES
    \* ---- show_emergency_contact_dialog ----
    phone_entry,     \* text of the Entry widget
    whatsapp_var,    \* BooleanVar of the check button
    result,          \* the result dict of the closure
    dialog_open,     \* the dialog window exists and mainloop() is running
    errors_shown,    \* number of messagebox.showerror notifications so far
    handler,         \* the last dialog event that ran
    ret,             \* what show_emergency_contact_dialog gave to its caller
    \* ---- SplashScreen ----
    duration,        \* self.duration, in tenths of a second
    root,            \* self.root: None or the id of a Tk surface
    progress_var,    \* self.progress_var: None or a DoubleVar with its value
    status_label,    \* self.status_label: None or a Label with its text
    tk_surfaces,     \* per allocated Tk surface, the number of destroy() calls
    log,             \* number of "Error updating progress" lines printed
    raised,          \* an exception left a method of the controller
    pc,              \* position of the thread inside show_splash
    step,            \* number of scripted steps already played
    callback,        \* show_splash's callback argument: None or a callable
    callback_calls,  \* invocations of callback in the current run
    issued,          \* update_progress calls issued by the current run
    entry_value,     \* percentage on display when the animation began
    elapsed,         \* time slept in the current run, in 1/70 s
    calls,           \* the last two operations of the controller
    runs             \* number of show_splash calls so far

dialog_vars == <<phone_entry, whatsapp_var, result, dialog_open, errors_shown,
                 handler, ret>>

splash_vars == <<duration, root, progress_var, status_label, tk_surfaces, log,
                 raised, pc, step, callback, callback_calls, issued,
                 entry_value, elapsed, calls, runs>>

vars == <<dialog_vars, splash_vars>>

None == <<>>

\* ------------------------------------------------------------------ bounds
MaxLen == 12
MaxErrors == 2
MaxSurfaces == 3
MaxLog == 2
MaxRuns == 2

\* ------------------------------------------------------- program constants
MinContactLen == 10
HoldTime == 35

DefaultPrefix == <<"+", "9", "1", " ">>

\* Characters the user types; Whitespace are those str.strip() removes.
Keys == {" ", "9"}
Whitespace == {" ", "\t"}

\* ------------------------------------------------------------------ strip
RECURSIVE lstrip(_)
lstrip(s) ==
    IF s = <<>> THEN s
    ELSE IF Head(s) \in Whitespace THEN lstrip(Tail(s)) ELSE s

RECURSIVE rstrip(_)
rstrip(s) ==
    IF s = <<>> THEN s
    ELSE IF s[Len(s)] \in Whitespace THEN rstrip(SubSeq(s, 1, Len(s) - 1)) ELSE s

strip_left_only(s) == lstrip(s)

strip(s) == rstrip(lstrip(s))

\* ----------------------------------------------------------------- dialog
InitialResult == [contact |-> <<>>, whatsapp_preference |-> FALSE, cancelled |-> TRUE]

DialogStart ==
    /\ phone_entry = DefaultPrefix
    /\ whatsapp_var = FALSE
    /\ result = InitialResult
    /\ dialog_open = TRUE
    /\ errors_shown = 0
    /\ handler = "none"
    /\ ret = [kind |-> "running"]

\* The user types a character at the end of the entry.
type_key(c) ==
    /\ dialog_open
    /\ Len(phone_entry) < MaxLen
    /\ phone_entry' = Append(phone_entry, c)
    /\ handler' = "edit"
    /\ UNCHANGED <<whatsapp_var, result, dialog_open, errors_shown, ret>>

\* The user deletes the last character of the entry.
backspace ==
    /\ dialog_open
    /\ phone_entry # <<>>
    /\ phone_entry' = SubSeq(phone_entry, 1, Len(phone_entry) - 1)
    /\ handler' = "edit"
    /\ UNCHANGED <<whatsapp_var, result, dialog_open, errors_shown, ret>>

\* The user clicks the check button.
toggle_whatsapp ==
    /\ dialog_open
    /\ whatsapp_var' = ~whatsapp_var
    /\ handler' = "toggle"
    /\ UNCHANGED <<phone_entry, result, dialog_open, errors_shown, ret>>

ok_proceed_raw_length ==
    /\ dialog_open
    /\ handler' = "ok_proceed"
    /\ LET contact == strip(phone_entry) IN
       IF Len(phone_entry) < MinContactLen
       THEN /\ errors_shown < MaxErrors
            /\ errors_shown' = errors_shown + 1
            /\ UNCHANGED <<result, dialog_open>>
       ELSE /\ result' = [contact |-> contact,
                          whatsapp_preference |-> whatsapp_var,
                          cancelled |-> FALSE]
            /\ dialog_open' = FALSE
            /\ UNCHANGED errors_shown
    /\ UNCHANGED <<phone_entry, whatsapp_var, ret>>

ok_proceed_store_first ==
    /\ dialog_open
    /\ handler' = "ok_proceed"
    /\ LET contact == strip(phone_entry) IN
       IF Len(contact) < MinContactLen
       THEN /\ errors_shown < MaxErrors
            /\ errors_shown' = errors_shown + 1
            /\ result' = [result EXCEPT !.contact = contact]
            /\ UNCHANGED dialog_open
       ELSE /\ result' = [contact |-> contact,
                          whatsapp_preference |-> whatsapp_var,
                          cancelled |-> FALSE]
            /\ dialog_open' = FALSE
            /\ UNCHANGED errors_shown
    /\ UNCHANGED <<phone_entry, whatsapp_var, ret>>

\* The OK button's command.
ok_proceed ==
    /\ dialog_open
    /\ handler' = "ok_proceed"
    /\ LET contact == strip(phone_entry) IN
       IF Len(contact) < MinContactLen
       THEN \* messagebox.showerror(...); return
            /\ errors_shown < MaxErrors
            /\ errors_shown' = errors_shown + 1
            /\ UNCHANGED <<result, dialog_open>>
       ELSE /\ result' = [contact |-> contact,
                          whatsapp_preference |-> whatsapp_var,
                          cancelled |-> FALSE]
            /\ dialog_open' = FALSE
            /\ UNCHANGED errors_shown
    /\ UNCHANGED <<phone_entry, whatsapp_var, ret>>

\* The Cancel button's command.
cancel_close ==
    /\ dialog_open
    /\ handler' = "cancel_close"
    /\ result' = [result EXCEPT !.cancelled = TRUE]
    /\ dialog_open' = FALSE
    /\ UNCHANGED <<phone_entry, whatsapp_var, errors_shown, ret>>

\* The WM_DELETE_WINDOW protocol handler.
on_closing ==
    /\ dialog_open
    /\ handler' = "on_closing"
    /\ result' = [result EXCEPT !.cancelled = TRUE]
    /\ dialog_open' = FALSE
    /\ UNCHANGED <<phone_entry, whatsapp_var, errors_shown, ret>>

return_value_always(r) == [kind |-> "dict", value |-> r]

\* return result if not result['cancelled'] else None
return_value(r) ==
    IF ~r.cancelled THEN [kind |-> "dict", value |-> r] ELSE [kind |-> "None"]

\* mainloop() has ended; show_emergency_contact_dialog returns.
dialog_return ==
    /\ ~dialog_open
    /\ ret.kind = "running"
    /\ ret' = return_value(result)
    /\ UNCHANGED <<phone_entry, whatsapp_var, result, dialog_open,
                   errors_shown, handler>>

\* ----------------------------------------------------------------- splash
steps_reordered ==
    << <<10, "Loading modules...">>,
       <<40, "Loading AI models...">>,
       <<25, "Initializing camera...">>,
       <<60, "Setting up eye tracking...">>,
       <<80, "Configuring interface...">>,
       <<95, "Finalizing setup...">>,
       <<100, "Ready!">> >>

\* The scripted (progress, status) steps of show_splash.
Steps ==
    << <<10, "Loading modules...">>,
       <<25, "Initializing camera...">>,
       <<40, "Loading AI models...">>,
       <<60, "Setting up eye tracking...">>,
       <<80, "Configuring interface...">>,
       <<95, "Finalizing setup...">>,
       <<100, "Ready!">> >>

\* Inputs of the public methods.
Durations == {0, 7, 30}
Values == {0, 50}
Labels == {"", "Custom"}
Callbacks == {None, <<"on_complete">>}
\* Where a toolkit call inside update_progress's try block raises, if any.
TkErrors == {"none", "set", "config", "update"}

\* The last two operations of the controller, newest last.
Called(name) == calls' = IF calls = <<>> THEN <<name>> ELSE <<calls[Len(calls)], name>>

LastCall(cs) == IF cs = <<>> THEN "none" ELSE cs[Len(cs)]

\* SplashScreen.__init__
SplashIdle ==
    /\ duration \in Durations
    /\ root = None
    /\ progress_var = None
    /\ status_label = None
    /\ tk_surfaces = <<>>
    /\ log = 0
    /\ raised = FALSE
    /\ pc = "idle"
    /\ step = 0
    /\ callback = None
    /\ callback_calls = 0
    /\ issued = <<>>
    /\ entry_value = 0
    /\ elapsed = 0
    /\ calls = <<>>
    /\ runs = 0

\* SplashScreen.create_splash: a new Tk surface, DoubleVar and status label.
create_splash ==
    /\ Len(tk_surfaces) < MaxSurfaces
    /\ tk_surfaces' = Append(tk_surfaces, 0)
    /\ root' = <<Len(tk_surfaces) + 1>>
    /\ progress_var' = <<0>>
    /\ status_label' = <<"Initializing...">>

update_progress_no_root_check(value, status_text, tk_error) ==
    /\ root' = root
    /\ raised' = raised
    /\ IF progress_var # None /\ status_label # None
       THEN /\ progress_var' = <<value>>
            /\ status_label' = IF status_text # "" THEN <<status_text>> ELSE status_label
            /\ log' = log
       ELSE UNCHANGED <<progress_var, status_label, log>>

update_progress_logs_absence(value, status_text, tk_error) ==
    /\ root' = root
    /\ raised' = raised
    /\ IF progress_var # None /\ status_label # None /\ root # None
       THEN /\ progress_var' = IF tk_error = "set" THEN progress_var ELSE <<value>>
            /\ status_label' =
                  IF tk_error \notin {"set", "config"} /\ status_text # ""
                  THEN <<status_text>> ELSE status_label
            /\ log' = IF tk_error = "none" THEN log ELSE log + 1
       ELSE /\ log' = log + 1
            /\ UNCHANGED <<progress_var, status_label>>

\* SplashScreen.update_progress(value, status_text).  tk_error names the call
\* of the try block that raises: progress_var.set ("set"), status_label.config
\* ("config", reached only with a non-empty status_text) or one of the
\* redraw calls ("update"); the handler prints one error line.
update_progress(value, status_text, tk_error) ==
    /\ root' = root
    /\ raised' = raised
    /\ IF progress_var # None /\ status_label # None /\ root # None
       THEN /\ progress_var' = IF tk_error = "set" THEN progress_var ELSE <<value>>
            /\ status_label' =
                  IF tk_error \notin {"set", "config"} /\ status_text # ""
                  THEN <<status_text>> ELSE status_label
            /\ log' = IF tk_error = "none" THEN log ELSE log + 1
       ELSE UNCHANGED <<progress_var, status_label, log>>

\* The tk_error values a call can meet.
TkOutcome(status_text, tk_error) ==
    /\ tk_error = "config" => status_text # ""
    /\ tk_error # "none" => (log < MaxLog /\ root # None /\ progress_var # None)

close_splash_keeps_root ==
    /\ IF root # None
       THEN tk_surfaces' = [tk_surfaces EXCEPT ![root[1]] = @ + 1]
       ELSE tk_surfaces' = tk_surfaces
    /\ root' = root
    /\ raised' = raised

\* SplashScreen.close_splash
close_splash ==
    /\ raised' = raised
    /\ IF root # None
       THEN /\ tk_surfaces' = [tk_surfaces EXCEPT ![root[1]] = @ + 1]
            /\ root' = None
       ELSE UNCHANGED <<tk_surfaces, root>>

run_vars == <<duration, pc, step, callback, callback_calls, issued, entry_value,
              elapsed, runs>>

\* A caller invokes create_splash on the controller.
CallCreate ==
    /\ pc = "idle"
    /\ create_splash
    /\ Called("create_splash")
    /\ UNCHANGED <<log, raised, run_vars>>

\* A caller invokes update_progress on the controller.
CallUpdate(value, status_text, tk_error) ==
    /\ pc = "idle"
    /\ TkOutcome(status_text, tk_error)
    /\ update_progress(value, status_text, tk_error)
    /\ Called("update_progress")
    /\ UNCHANGED <<tk_surfaces, run_vars>>

\* A caller invokes close_splash on the controller.
CallClose ==
    /\ pc = "idle"
    /\ close_splash
    /\ Called("close_splash")
    /\ UNCHANGED <<progress_var, status_label, log, run_vars>>

\* show_splash(callback) up to the animation loop: create the surface when
\* there is none, show the window.
show_splash_enter(cb) ==
    /\ pc = "idle"
    /\ runs < MaxRuns
    /\ runs' = runs + 1
    /\ IF root = None
       THEN create_splash
       ELSE UNCHANGED <<tk_surfaces, root, progress_var, status_label>>
    /\ callback' = cb
    /\ callback_calls' = 0
    /\ issued' = <<>>
    /\ step' = 0
    /\ elapsed' = 0
    /\ entry_value' = progress_var'[1]
    /\ pc' = "animate"
    /\ Called("show_splash")
    /\ UNCHANGED <<duration, log, raised>>

\* One iteration of the loop: update_progress(progress, status), then
\* time.sleep(step_duration) with step_duration = duration / len(steps).
show_splash_step(tk_error) ==
    /\ pc = "animate"
    /\ step < Len(Steps)
    /\ LET progress == Steps[step + 1][1]
           status == Steps[step + 1][2]
       IN /\ TkOutcome(status, tk_error)
          /\ update_progress(progress, status, tk_error)
          /\ issued' = Append(issued, <<progress, status>>)
    /\ step' = step + 1
    /\ elapsed' = elapsed + duration
    /\ Called("update_progress")
    /\ UNCHANGED <<tk_surfaces, duration, pc, callback, callback_calls,
                   entry_value, runs>>

\* time.sleep(0.5) after the loop.
show_splash_hold ==
    /\ pc = "animate"
    /\ step = Len(Steps)
    /\ elapsed' = elapsed + HoldTime
    /\ pc' = "close"
    /\ Called("sleep")
    /\ UNCHANGED <<root, progress_var, status_label, tk_surfaces, log, duration,
                   step, callback, callback_calls, issued, entry_value, runs,
                   raised>>

show_splash_close_skipped ==
    /\ pc = "close"
    /\ pc' = "callback"
    /\ Called("close_splash")
    /\ UNCHANGED <<root, tk_surfaces, progress_var, status_label, log, duration,
                   step, callback, callback_calls, issued, entry_value, elapsed,
                   runs, raised>>

\* self.close_splash() inside show_splash.
show_splash_close ==
    /\ pc = "close"
    /\ close_splash
    /\ pc' = "callback"
    /\ Called("close_splash")
    /\ UNCHANGED <<progress_var, status_label, log, duration, step, callback,
                   callback_calls, issued, entry_value, elapsed, runs>>

\* if callback: callback(); show_splash returns.
show_splash_callback ==
    /\ pc = "callback"
    /\ callback_calls' = IF callback # None THEN callback_calls + 1 ELSE callback_calls
    /\ pc' = "idle"
    /\ Called("callback")
    /\ UNCHANGED <<root, progress_var, status_label, tk_surfaces, log, duration,
                   step, callback, issued, entry_value, elapsed, runs, raised>>

\* The dialog is not running in the splash specification.
DialogIdle ==
    /\ phone_entry = <<>>
    /\ whatsapp_var = FALSE
    /\ result = InitialResult
    /\ dialog_open = FALSE
    /\ errors_shown = 0
    /\ handler = "none"
    /\ ret = [kind |-> "None"]

SplashInit == SplashIdle /\ DialogIdle

SplashNext ==
    \/ CallCreate /\ UNCHANGED dialog_vars
    \/ \E v \in Values, t \in Labels, e \in TkErrors :
          CallUpdate(v, t, e) /\ UNCHANGED dialog_vars
    \/ CallClose /\ UNCHANGED dialog_vars
    \/ \E cb \in Callbacks : show_splash_enter(cb) /\ UNCHANGED dialog_vars
    \/ \E e \in TkErrors : show_splash_step(e) /\ UNCHANGED dialog_vars
    \/ show_splash_hold /\ UNCHANGED dialog_vars
    \/ show_splash_close /\ UNCHANGED dialog_vars
    \/ show_splash_callback /\ UNCHANGED dialog_vars

SplashSpec == SplashInit /\ [][SplashNext]_vars

\* The splash controller is not in use in the dialog specification.
SplashUnused ==
    /\ duration = 0
    /\ root = None
    /\ progress_var = None
    /\ status_label = None
    /\ tk_surfaces = <<>>
    /\ log = 0
    /\ raised = FALSE
    /\ pc = "idle"
    /\ step = 0
    /\ callback = None
    /\ callback_calls = 0
    /\ issued = <<>>
    /\ entry_value = 0
    /\ elapsed = 0
    /\ calls = <<>>
    /\ runs = 0

DialogInit == DialogStart /\ SplashUnused

DialogNext ==
    \/ \E c \in Keys : type_key(c) /\ UNCHANGED splash_vars
    \/ backspace /\ UNCHANGED splash_vars
    \/ toggle_whatsapp /\ UNCHANGED splash_vars
    \/ ok_proceed /\ UNCHANGED splash_vars
    \/ cancel_close /\ UNCHANGED splash_vars
    \/ on_closing /\ UNCHANGED splash_vars
    \/ dialog_return /\ UNCHANGED splash_vars

DialogSpec == DialogInit /\ [][DialogNext]_vars

\* ---------------------------------------------------------- dialog claims
\* The text that remains of s once the whitespace at both ends is removed,
\* stated without reference to strip: the span from the first to the last
\* character that is not whitespace.
Visible(s) == {k \in 1..Len(s) : s[k] \notin Whitespace}

Trimmed(s) ==
    IF Visible(s) = {} THEN <<>>
    ELSE SubSeq(s,
                CHOOSE i \in Visible(s) : \A k \in Visible(s) : i <= k,
                CHOOSE j \in Visible(s) : \A k \in Visible(s) : k <= j)

\* C1: when the last handler was Cancel or the window-close control, the
\* caller gets None, and the caller never gets a dict whose cancelled field
\* is true.
C1_CancelReturnsNone ==
    /\ ret.kind = "dict" => ~ret.value.cancelled
    /\ handler \in {"cancel_close", "on_closing"} =>
          /\ ~dialog_open
          /\ ret.kind # "running" => ret.kind = "None"

C1_Witness ==
    /\ handler = "cancel_close"
    /\ ret.kind = "None"
    /\ errors_shown >= 1
    /\ whatsapp_var
    /\ phone_entry # DefaultPrefix

\* C2: after OK with a trimmed text of length >= 10 the dialog is closed, the
\* result holds the trimmed text, the check box state and cancelled = false,
\* and that result is what the caller receives.
C2_ValidConfirmReturnsResult ==
    (handler = "ok_proceed" /\ Len(Trimmed(phone_entry)) >= MinContactLen) =>
        /\ ~dialog_open
        /\ result = [contact |-> Trimmed(phone_entry),
                     whatsapp_preference |-> whatsapp_var,
                     cancelled |-> FALSE]
        /\ ret.kind # "running" => (ret.kind = "dict" /\ ret.value = result)

C2_Witness ==
    /\ handler = "ok_proceed"
    /\ ret.kind = "dict"
    /\ ret.value.whatsapp_preference
    /\ Len(ret.value.contact) >= MinContactLen
    /\ Len(phone_entry) > Len(ret.value.contact)

C3_RejectedState ==
    (handler = "ok_proceed" /\ Len(Trimmed(phone_entry)) < MinContactLen) =>
        /\ dialog_open
        /\ errors_shown >= 1
        /\ ret.kind = "running"
        /\ result = InitialResult
        /\ ENABLED cancel_close
        /\ ENABLED on_closing
        /\ ENABLED backspace \/ \E c \in Keys : ENABLED type_key(c)

C3_RejectedStep ==
    (handler' = "ok_proceed" /\ Len(Trimmed(phone_entry)) < MinContactLen) =>
        /\ errors_shown' = errors_shown + 1
        /\ dialog_open'
        /\ result' = result
        /\ ret' = ret

\* C3: OK with a trimmed text shorter than 10 shows one error notification,
\* leaves the dialog open, returns nothing and leaves the result record at
\* its initial value; the form can still be edited, cancelled or closed.
C3_ShortConfirmRejected == []C3_RejectedState /\ [][C3_RejectedStep]_vars

C3_Witness ==
    /\ handler = "ok_proceed"
    /\ phone_entry = DefaultPrefix
    /\ errors_shown = 1
    /\ dialog_open

ScriptedUpdates ==
    << <<10, "Loading modules...">>,
       <<25, "Initializing camera...">>,
       <<40, "Loading AI models...">>,
       <<60, "Setting up eye tracking...">>,
       <<80, "Configuring interface...">>,
       <<95, "Finalizing setup...">>,
       <<100, "Ready!">> >>

C4_ScriptInOrder ==
    /\ Len(issued) <= Len(ScriptedUpdates)
    /\ issued = SubSeq(ScriptedUpdates, 1, Len(issued))
    /\ pc = "animate" => Len(issued) = step
    /\ (pc \in {"close", "callback"} \/ (pc = "idle" /\ runs > 0)) =>
          issued = ScriptedUpdates

C4_NeverDecreases ==
    pc = "animate" => progress_var'[1] >= progress_var[1]

C4_NeverDecreasesFromLowEntry ==
    (pc = "animate" /\ entry_value <= ScriptedUpdates[1][1]) =>
        progress_var'[1] >= progress_var[1]

C5_RunState ==
    /\ pc \in {"animate", "close", "callback"} => callback_calls = 0
    /\ pc = "callback" => (root = None /\ issued = ScriptedUpdates)
    /\ callback_calls <= 1

C5_RunStep ==
    /\ callback_calls' > callback_calls =>
          /\ pc = "callback"
          /\ root = None
          /\ root' = None
          /\ issued = ScriptedUpdates
          /\ callback # None
          /\ callback_calls' = 1
    /\ (pc = "close" /\ pc' = "callback") =>
          /\ root' = None
          /\ root # None => tk_surfaces'[root[1]] = 1
    /\ (pc = "callback" /\ pc' = "idle") =>
          callback_calls' = IF callback # None THEN 1 ELSE 0

\* C5: in a run of show_splash the surface is destroyed (root is None) after
\* the last update and before the callback; a provided callback is invoked
\* exactly once per run, after the last step and with no surface; without a
\* callback none is invoked.
C5_CloseThenCallbackOnce == []C5_RunState /\ [][C5_RunStep]_vars

C5_Witness ==
    /\ pc = "idle"
    /\ runs >= 1
    /\ callback # None
    /\ callback_calls = 1
    /\ root = None
    /\ tk_surfaces[1] = 1

C6_NoSurfaceStep ==
    (LastCall(calls') = "update_progress" /\ root = None) =>
        /\ progress_var' = progress_var
        /\ status_label' = status_label
        /\ root' = root
        /\ raised' = raised

\* C6: update_progress with no surface (root is None, before creation or
\* after close_splash) raises nothing and leaves the percentage, the status
\* text and root unchanged.
C6_UpdateWithoutSurfaceIsNoOp == [](~raised) /\ [][C6_NoSurfaceStep]_vars

C6_Witness ==
    /\ calls = <<"close_splash", "update_progress">>
    /\ root = None
    /\ progress_var # None
    /\ status_label # None
    /\ ~raised

C7_LogsWithoutSurface ==
    (LastCall(calls') = "update_progress" /\ root = None) => log' = log + 1

\* C7 as stated: every update_progress call made while no surface exists
\* writes an error log entry.
C7_Original == [][C7_LogsWithoutSurface]_vars

C7_SilentStep ==
    /\ (LastCall(calls') = "update_progress" /\ root = None) => log' = log
    /\ log' # log =>
          /\ LastCall(calls') = "update_progress"
          /\ root # None
          /\ log' = log + 1

\* C7 as amended: update_progress with no surface (root is None) writes no
\* error log entry; an entry is written only by an update_progress call made
\* while the surface exists, one per call, when a toolkit call raises.
C7_UpdateWithoutSurfaceIsSilent == [][C7_SilentStep]_vars

C7_Witness ==
    /\ calls = <<"update_progress", "update_progress">>
    /\ root = None
    /\ tk_surfaces # <<>>
    /\ log = 0

\* C8 as stated: without an intervening close at most one surface is
\* allocated, so at most one surface of the controller is ever undestroyed.
C8_SingleSurface ==
    Cardinality({i \in 1..Len(tk_surfaces) : tk_surfaces[i] = 0}) <= 1

C9_CloseState ==
    /\ \A i \in 1..Len(tk_surfaces) : tk_surfaces[i] <= 1
    /\ LastCall(calls) = "close_splash" => root = None
    /\ ~raised

C9_CloseStep ==
    LastCall(calls') = "close_splash" =>
        /\ root' = None
        /\ raised' = raised
        /\ root # None => tk_surfaces'[root[1]] = 1
        /\ root = None =>
              UNCHANGED <<tk_surfaces, progress_var, status_label, log>>

\* C9: close_splash raises nothing from any state, leaves root None, destroys
\* a surface at most once, and a second call in a row changes nothing.
C9_CloseIsIdempotent == []C9_CloseState /\ [][C9_CloseStep]_vars

C9_Witness ==
    /\ calls = <<"close_splash", "close_splash">>
    /\ root = None
    /\ tk_surfaces # <<>>
    /\ tk_surfaces[Len(tk_surfaces)] = 1

====
